---- MODULE Spec2Model ----
(***************************************************************************)
(* HP_Power_Lab_2.0: the pipeline orchestrator (run_pipeline.py) and the   *)
(* Flask backend (backend/api.py) that uploads raw data, triggers the      *)
(* orchestrator as a subprocess and serves the cached datasets.            *)
(*                                                                         *)
(* The Flask server handles requests on threads (app.run, api.py:340), so  *)
(* every handler that blocks or touches the file system in several calls   *)
(* is split at those calls.  The three stage bodies (run_standardization,  *)
(* run_analytics.main) are imported by run_pipeline.py but are not part of *)
(* the sources at hand: they are modelled from the design document.        *)
(***************************************************************************)
EXTENDS Integers, Sequences, FiniteSets

(* ------------------------------ bounds -------------------------------- *)

\* Request-handling threads of the Flask server.
MaxThreads == 2

\* Seconds the wall clock can advance (datetime.now() has values 0..MaxTime).
MaxTime == 1

\* Upload requests that carry a file (each carries bytes of its own).
MaxUploads == 2

\* Purchase order ids in the files the GET endpoints serve.
MaxPoId == 2

\* Rows in each of those files.
MaxRows == 2

\* The page and per_page arguments of GET /api/items (1..MaxPage, 1..MaxPerPage).
MaxPage == 5
MaxPerPage == 2

\* Items the anomaly detection looks at.
MaxItems == 2

Threads == 1..MaxThreads

(* --------------------------- file contents ---------------------------- *)

\* api.py:230-231
required_columns ==
    <<"po_id", "item_description", "unit_price", "quantity", "unit",
      "po_date", "region", "department", "supplier">>

\* api.py:48, the raw columns load_data joins onto the standardized items
merge_columns ==
    {"po_id", "unit_price", "supplier", "region", "quantity", "unit", "po_date"}

Range(s) == {s[i] : i \in DOMAIN s}

Required == Range(required_columns)

\* A path that names no file.
Missing == [kind |-> "missing", id |-> 0, cols |-> {}]

\* A file cut short by a writer that stopped half way.
Truncated == [kind |-> "truncated", id |-> 0, cols |-> {}]

\* A CSV file: id names its bytes (for an output file, the raw version it
\* was computed from), cols its header.
Csv(id, cols) == [kind |-> "csv", id |-> id, cols |-> cols]

\* Uploaded bytes pandas cannot parse.
Garbage(id) == [kind |-> "garbage", id |-> id, cols |-> {}]

Exists(f) == f.kind # "missing"

(* ----------------------------- variables ------------------------------ *)

VARIABLES
    clock,            \* datetime.now(), in seconds
    nextId,           \* bytes the next uploaded file carries
    raw,              \* data/raw/purchase_orders_raw.csv
    backups,          \* data/raw/purchase_orders_raw_backup_{ts}.csv, by ts
    uploads,          \* data/uploads/upload_{ts}_{filename}, by <<ts, filename>>
    processed,        \* data/processed/{standardized_items,cost_analytics,anomalies}.csv
    standardized_df,  \* api.py:70 module globals
    analytics_df,
    anomalies_df,
    pc,               \* where each request thread is in its handler
    up,               \* upload_file's locals, per thread
    orch,             \* the orchestrator subprocess each process_data call runs
    resp,             \* the response to the request each thread handled last
    req,              \* history: the request each thread handles or handled last
    ended,            \* history: how the process_data call of each thread ended
    superseded,       \* history: raw versions an upload has overwritten
    loaded,           \* process_data: the tuple load_data() returned, per thread
    answer,           \* the response to the last GET request
    rawRows,          \* the rows of the raw file load_data read
    stdRows,          \* the rows of standardized_items.csv load_data read
    anaRows,          \* the rows of cost_analytics.csv load_data read
    anoRows,          \* the rows of anomalies.csv load_data read
    template,         \* data/uploads/template_purchase_orders.csv
    devs,             \* anomaly detection: each item's relative deviation, in percent
    records,          \* anomaly detection: the AnomalyRecords emitted
    breakdown,        \* dashboard: the severity counts shown
    anomalyPc         \* where the anomaly detection and its display are

vars ==
    <<clock, nextId, raw, backups, uploads, processed, standardized_df,
      analytics_df, anomalies_df, pc, up, orch, resp, req, ended, superseded,
      loaded, answer, rawRows, stdRows, anaRows, anoRows, template,
      devs, records, breakdown, anomalyPc>>

fileVars == <<raw, backups, uploads, processed, superseded>>
cacheVars == <<standardized_df, analytics_df, anomalies_df>>
loadVars == <<loaded>>
tableVars == <<rawRows, stdRows, anaRows, anoRows>>
anomalyVars == <<devs, records, breakdown, anomalyPc>>
serveVars == <<answer, tableVars, template, anomalyVars>>

(* ------------------------ pipeline orchestrator ----------------------- *)

Stages == <<"STANDARDIZATION", "ANALYTICS", "ANOMALY_DETECTION">>

Outputs == {"std", "ana", "ano"}

\* The file each stage persists (run_pipeline.py:57-59).
OutputOf(stage) ==
    CASE stage = "STANDARDIZATION" -> "std"
      [] stage = "ANALYTICS" -> "ana"
      [] OTHER -> "ano"

\* How a call of a stage's main() can end: it returns, raises an Exception,
\* or raises SystemExit (sys.exit(code)), which `except Exception` lets through.
StageOutcomes == {"ok", "exception", "exit0", "exit1"}

\* What the call has done to its output file by then: nothing, a write that
\* stopped half way (it overwrites in place), or the whole file.
WriteHows == {"none", "partial", "full"}

NotExited == [exited |-> FALSE, code |-> 0]
ExitStatus(code) == [exited |-> TRUE, code |-> code]

\* An orchestrator process that was not started.  Beside the process's own
\* state (pc, stdout, stderr, rc) the record keeps the history of the run:
\* the stages it started, those that returned, those that raised, the
\* output files whose content it changed, and whether it printed the banner.
OrchOff ==
    [pc |-> "off", stdout |-> <<>>, stderr |-> <<>>, rc |-> NotExited,
     started |-> <<>>, completed |-> <<>>, raised |-> <<>>, changed |-> {},
     done |-> FALSE]

Stdout(o, line) == [o EXCEPT !.stdout = Append(@, line)]

\* sys.exit(code), or SystemExit(code) reaching the top of the script.
SysExit(o, code) == [o EXCEPT !.pc = "exited", !.rc = ExitStatus(code)]

\* Mutant of ExceptHandler: a bare sys.exit(), which ends the run with status 0.
ExceptHandlerExitsZero(o, stage, message) ==
    SysExit([Stdout(o, message) EXCEPT !.stderr = Append(@, "Traceback"),
                                       !.raised = Append(@, stage)], 0)

\* run_pipeline.py:34-38 and 47-51: the two handlers differ in the message.
ExceptHandler(o, stage, message) ==
    SysExit([Stdout(o, message) EXCEPT !.stderr = Append(@, "Traceback"),
                                      !.raised = Append(@, stage)], 1)

\* run_pipeline.py:18-24: the header, "[STEP 1/3]", and into the first try.
OrchBegin ==
    [Stdout(Stdout(OrchOff, "HEADER"), "[STEP 1/3]") EXCEPT
        !.pc = "step1", !.started = <<"STANDARDIZATION">>]

\* Mutant of Step1: the handler runs the stage again instead of giving up.
Step1Retries(o, outcome) ==
    CASE outcome = "ok" ->
            [Stdout(o, "[STEP 2/3]") EXCEPT
                !.pc = "step2",
                !.completed = Append(@, "STANDARDIZATION"),
                !.started = Append(@, "ANALYTICS")]
      [] outcome = "exception" ->
            [Stdout(o, "Error in standardization") EXCEPT
                !.stderr = Append(@, "Traceback"),
                !.started = Append(@, "STANDARDIZATION")]
      [] outcome = "exit0" -> SysExit(o, 0)
      [] OTHER -> SysExit(o, 1)

\* Mutant of Step1: the handler lacks its sys.exit(1) and the script goes on.
Step1GoesOn(o, outcome) ==
    CASE outcome = "ok" ->
            [Stdout(o, "[STEP 2/3]") EXCEPT
                !.pc = "step2",
                !.completed = Append(@, "STANDARDIZATION"),
                !.started = Append(@, "ANALYTICS")]
      [] outcome = "exception" ->
            [Stdout(Stdout(o, "Error in standardization"), "[STEP 2/3]") EXCEPT
                !.stderr = Append(@, "Traceback"),
                !.raised = Append(@, "STANDARDIZATION"),
                !.pc = "step2",
                !.started = Append(@, "ANALYTICS")]
      [] outcome = "exit0" -> SysExit(o, 0)
      [] OTHER -> SysExit(o, 1)

\* run_pipeline.py:25-42: the call of run_standardization() has ended.
Step1(o, outcome) ==
    CASE outcome = "ok" ->
            [Stdout(o, "[STEP 2/3]") EXCEPT
                !.pc = "step2",
                !.completed = Append(@, "STANDARDIZATION"),
                !.started = Append(@, "ANALYTICS")]
      [] outcome = "exception" ->
            ExceptHandler(o, "STANDARDIZATION", "Error in standardization")
      [] outcome = "exit0" -> SysExit(o, 0)
      [] OTHER -> SysExit(o, 1)

\* run_pipeline.py:43-51, first half of run_analytics_full(): the analytics
\* have ended; when they returned, the same call goes on to the anomalies.
Step2Analytics(o, outcome) ==
    CASE outcome = "ok" ->
            [o EXCEPT
                !.pc = "step2_anomaly",
                !.completed = Append(@, "ANALYTICS"),
                !.started = Append(@, "ANOMALY_DETECTION")]
      [] outcome = "exception" ->
            ExceptHandler(o, "ANALYTICS", "Error in analytics")
      [] outcome = "exit0" -> SysExit(o, 0)
      [] OTHER -> SysExit(o, 1)

\* run_pipeline.py:43-51, second half of run_analytics_full().
Step2Anomaly(o, outcome) ==
    CASE outcome = "ok" ->
            [o EXCEPT
                !.pc = "banner",
                !.completed = Append(@, "ANOMALY_DETECTION")]
      [] outcome = "exception" ->
            ExceptHandler(o, "ANOMALY_DETECTION", "Error in analytics")
      [] outcome = "exit0" -> SysExit(o, 0)
      [] OTHER -> SysExit(o, 1)

\* run_pipeline.py:53-61: the banner, then the script ends (status 0).
Banner(o) ==
    SysExit([Stdout(o, "PIPELINE COMPLETED SUCCESSFULLY!") EXCEPT !.done = TRUE], 0)

\* The stage an orchestrator at pc is inside.
StageAt(at) ==
    CASE at = "step1" -> "STANDARDIZATION"
      [] at = "step2" -> "ANALYTICS"
      [] OTHER -> "ANOMALY_DETECTION"

InStage(o) == o.pc \in {"step1", "step2", "step2_anomaly"}

\* The persisted file a stage reads (design 4.5: the previous stage's output).
StageInput(stage) ==
    CASE stage = "STANDARDIZATION" -> raw
      [] stage = "ANALYTICS" -> processed["std"]
      [] OTHER -> processed["ana"]

\* Whether the stage can return normally: its inputs are there and parse.
StageCanSucceed(stage) ==
    /\ StageInput(stage).kind = "csv"
    /\ stage = "STANDARDIZATION" => Required \subseteq raw.cols
    /\ stage = "ANOMALY_DETECTION" => processed["std"].kind = "csv"

\* The file a stage that ran to its end writes: computed from its input.
StageResult(stage) == Csv(StageInput(stage).id, {})

\* The output file after a call that wrote `how` much of it.
StageWrite(stage, how) ==
    CASE how = "none" -> processed[OutputOf(stage)]
      [] how = "partial" -> Truncated
      [] OTHER -> StageResult(stage)

\* The ways a stage call can end in the current state of the files.
StageEndings(stage) ==
    {e \in StageOutcomes \X WriteHows :
        /\ e[1] = "ok" => (e[2] = "full" /\ StageCanSucceed(stage))
        /\ ~StageCanSucceed(stage) => e[2] = "none"}

AfterStage(o, outcome) ==
    CASE o.pc = "step1" -> Step1(o, outcome)
      [] o.pc = "step2" -> Step2Analytics(o, outcome)
      [] OTHER -> Step2Anomaly(o, outcome)

\* History: the run has changed the content of the stage's output file.
Changed(o, stage, content) ==
    IF content = processed[OutputOf(stage)]
    THEN o
    ELSE [o EXCEPT !.changed = @ \cup {OutputOf(stage)}]

\* One stage of the run thread t started runs to its end.
OrchStage(t) ==
    /\ pc[t] = "proc_running"
    /\ InStage(orch[t])
    /\ LET stage == StageAt(orch[t].pc) IN
        \E e \in StageEndings(stage) :
            /\ processed' = [processed EXCEPT ![OutputOf(stage)] = StageWrite(stage, e[2])]
            /\ orch' = [orch EXCEPT ![t] =
                  AfterStage(Changed(@, stage, StageWrite(stage, e[2])), e[1])]
    /\ UNCHANGED <<loadVars, serveVars, clock, nextId, raw, backups, uploads, superseded, cacheVars, pc, up, resp, req, ended>>

\* run_pipeline.py:53-61
OrchBanner(t) ==
    /\ pc[t] = "proc_running"
    /\ orch[t].pc = "banner"
    /\ orch' = [orch EXCEPT ![t] = Banner(@)]
    /\ UNCHANGED <<loadVars, serveVars, fileVars, clock, nextId, cacheVars, pc, up, resp, req, ended>>


(* ----------------------------- responses ------------------------------ *)

NoResponse == [status |-> 0, body |-> [none |-> TRUE]]

NoAnswer == [endpoint |-> "none", status |-> 0, body |-> [none |-> TRUE]]

Response(status, body) == [status |-> status, body |-> body]

\* return jsonify(...), status: the handler is over.
Respond(t, r) ==
    /\ resp' = [resp EXCEPT ![t] = r]
    /\ pc' = [pc EXCEPT ![t] = "idle"]

\* process_data returns: its subprocess object is gone with it.
RespondProcess(t, r, how) ==
    /\ Respond(t, r)
    /\ orch' = [orch EXCEPT ![t] = OrchOff]
    /\ ended' = [ended EXCEPT ![t] = how]

\* upload_file's locals: the timestamp, the file name, the file the client
\* sent, the frame read back from disk; and, as history, whether the
\* handler changed the raw file.
NoUpload ==
    [ts |-> 0, name |-> <<>>, file |-> Missing, df |-> Missing, changed_raw |-> FALSE]

\* A thread takes a request of the given kind: its last request is forgotten.
Accept(t, kind) ==
    /\ pc[t] = "idle"
    /\ req' = [req EXCEPT ![t] = kind]

(* ------------------------------ load_data ----------------------------- *)

\* None, for a dataset that is not loaded.
NoneDf == [kind |-> "none", of |-> "none"]

\* The frame pd.read_csv made of an output file (its rows are not part of
\* this record: a frame read twice from a file that changed is the same here).
Df(o) == [kind |-> "df", of |-> o]

\* api.py:37-51: the four files are read and the join finds its columns.
LoadCanSucceed ==
    /\ \A o \in Outputs : processed[o].kind \in {"csv", "truncated"}
    /\ raw.kind \in {"csv", "truncated"}
    /\ raw.kind = "csv" => merge_columns \subseteq raw.cols

\* Whether pandas may raise on what is there: it does on a missing file or
\* column, and it may or may not on a file cut short.
LoadMayRaise ==
    \/ ~LoadCanSucceed
    \/ raw.kind = "truncated"
    \/ \E o \in Outputs : processed[o].kind = "truncated"

LoadOutcomes == {r \in BOOLEAN : (r => LoadMayRaise) /\ (~r => LoadCanSucceed)}

\* Mutant of load_data: a file that cannot be read costs its own frame only.
load_data_per_file(raises) ==
    IF raises
    THEN <<IF processed["std"].kind = "csv" /\ raw.kind = "csv" THEN Df("std") ELSE NoneDf,
           IF processed["ana"].kind = "csv" THEN Df("ana") ELSE NoneDf,
           IF processed["ano"].kind = "csv" THEN Df("ano") ELSE NoneDf>>
    ELSE <<Df("std"), Df("ana"), Df("ano")>>

\* A handler that holds no tuple of load_data().
NoLoad == <<NoneDf, NoneDf, NoneDf>>

\* api.py:35-68: load_data() returns the three frames or (None, None, None).
load_data(raises) ==
    IF raises
    THEN <<NoneDf, NoneDf, NoneDf>>
    ELSE <<Df("std"), Df("ana"), Df("ano")>>

\* len(df) if df is not None else 0 (api.py:294-296); the row count of a
\* frame is not modelled, 1 stands for it.
DfLen(df) == IF df.kind = "none" THEN 0 ELSE 1

(* ---------------------------- process_data ---------------------------- *)

\* api.py:273-274
ScriptNotFoundResponse ==
    Response(500, [error |-> "Pipeline script not found"])

\* api.py:307-312
ExceptionResponse ==
    Response(500, [error |-> "Processing failed: exception", traceback |-> "Traceback"])

\* Mutant of TimeoutResponse: the timeout is reported like a failed run, with
\* the output captured until the kill.
TimeoutReportedAsFailure(o) ==
    Response(500, [error |-> "Processing failed",
                   output |-> o.stdout,
                   error_details |-> o.stderr])

\* api.py:305-306
TimeoutResponse(o) ==
    Response(500, [error |-> "Processing timeout (max 5 minutes)"])

\* api.py:298-303
FailureResponse(o) ==
    Response(500, [error |-> "Processing failed",
                   output |-> o.stdout,
                   error_details |-> o.stderr])

\* api.py:291-297
SuccessResponse(o, frames) ==
    Response(200, [message |-> "Data processed successfully",
                   output |-> o.stdout,
                   standardized_items |-> DfLen(frames[1]),
                   analytics_records |-> DfLen(frames[2]),
                   anomalies_found |-> DfLen(frames[3])])

\* Mutant of ShouldReload: the data is reloaded whatever the exit status.
ShouldReloadAlways(o) == o.rc.exited

\* api.py:286: the branch the handler takes on result.returncode.
ShouldReload(o) == o.rc.code = 0

\* api.py:269-284: the script is looked up and the subprocess started
\* (subprocess.run may itself raise, e.g. when the process cannot be spawned).
ProcessStart(t) ==
    /\ Accept(t, "process")
    /\ up' = [up EXCEPT ![t] = NoUpload]
    /\ \/ RespondProcess(t, ScriptNotFoundResponse, "script_missing")
       \/ RespondProcess(t, ExceptionResponse, "raised")
       \/ /\ orch' = [orch EXCEPT ![t] = OrchBegin]
          /\ pc' = [pc EXCEPT ![t] = "proc_running"]
          /\ resp' = [resp EXCEPT ![t] = NoResponse]
          /\ ended' = [ended EXCEPT ![t] = "none"]
    /\ UNCHANGED <<loadVars, serveVars, fileVars, clock, nextId, cacheVars>>

\* api.py:282 and 305-306: the 300 s pass before the subprocess has ended;
\* subprocess.run kills it (inside a stage, the stage's file may be cut
\* short) and raises TimeoutExpired.
ProcessTimeout(t) ==
    /\ pc[t] = "proc_running"
    /\ orch[t].pc # "exited"
    /\ \E how \in {"none", "partial"} :
        /\ how = "partial" => InStage(orch[t])
        /\ processed' =
              [processed EXCEPT ![OutputOf(StageAt(orch[t].pc))] =
                  StageWrite(StageAt(orch[t].pc), how)]
    /\ RespondProcess(t, TimeoutResponse(orch[t]), "timeout")
    /\ UNCHANGED <<loadVars, serveVars, clock, nextId, raw, backups, uploads, superseded, cacheVars, up, req>>

\* api.py:277-303: subprocess.run has returned the finished process.
ProcessReturn(t) ==
    /\ pc[t] = "proc_running"
    /\ orch[t].pc = "exited"
    /\ IF ShouldReload(orch[t])
       THEN /\ pc' = [pc EXCEPT ![t] = "proc_reload"]
            /\ UNCHANGED <<resp, orch, ended>>
       ELSE RespondProcess(t, FailureResponse(orch[t]), "failed")
    /\ UNCHANGED <<loadVars, serveVars, fileVars, clock, nextId, cacheVars, up, req>>

\* api.py:289, the call: load_data() returns its tuple to the handler.
ProcessReload(t) ==
    /\ pc[t] = "proc_reload"
    /\ \E raises \in LoadOutcomes :
        loaded' = [loaded EXCEPT ![t] = load_data(raises)]
    /\ pc' = [pc EXCEPT ![t] = "proc_store1"]
    /\ UNCHANGED <<fileVars, clock, nextId, cacheVars, up, req, orch, resp, ended, serveVars>>

\* The position of the global a handler at pc assigns next.
StoreAt(at) ==
    CASE at = "proc_store1" -> 1
      [] at = "proc_store2" -> 2
      [] OTHER -> 3

\* api.py:289, the assignment: the tuple is unpacked into the three globals
\* one store at a time, and other threads run in between; after the third
\* store the success is reported (api.py:291-297).
ProcessStore(t) ==
    /\ pc[t] \in {"proc_store1", "proc_store2", "proc_store3"}
    /\ LET k == StoreAt(pc[t]) IN
        /\ standardized_df' = IF k = 1 THEN loaded[t][1] ELSE standardized_df
        /\ analytics_df' = IF k = 2 THEN loaded[t][2] ELSE analytics_df
        /\ anomalies_df' = IF k = 3 THEN loaded[t][3] ELSE anomalies_df
        /\ IF k < 3
           THEN /\ pc' = [pc EXCEPT ![t] = IF k = 1 THEN "proc_store2" ELSE "proc_store3"]
                /\ UNCHANGED <<orch, resp, ended, loaded>>
           ELSE /\ RespondProcess(t, SuccessResponse(orch[t],
                        <<standardized_df, analytics_df, loaded[t][3]>>), "success")
                /\ loaded' = [loaded EXCEPT ![t] = NoLoad]
    /\ UNCHANGED <<fileVars, clock, nextId, up, req, serveVars>>

(* ----------------------------- upload_file ---------------------------- *)

\* File names a client sends, as characters.
FileNames ==
    {<<>>,
     <<"a", ".", "c", "s", "v">>,
     <<"a", ".", "C", "S", "V">>,
     <<"a", ".", "t", "x", "t">>,
     <<"c", "s", "v">>}

\* api.py:23
ALLOWED_EXTENSIONS == {<<"c", "s", "v">>}

\* str.lower() on the characters file names are made of here.
Lower(c) ==
    CASE c = "C" -> "c"
      [] c = "S" -> "s"
      [] c = "V" -> "v"
      [] c = "P" -> "p"
      [] c = "I" -> "i"
      [] OTHER -> c

LowerStr(s) == [i \in DOMAIN s |-> Lower(s[i])]

\* filename.rsplit('.', 1)[1], for a filename that holds a '.'
Extension(filename) ==
    LET dot == CHOOSE i \in DOMAIN filename :
                   /\ filename[i] = "."
                   /\ \A j \in DOMAIN filename : filename[j] = "." => j <= i
    IN SubSeq(filename, dot + 1, Len(filename))

\* api.py:199-201
allowed_file(filename) ==
    /\ \E i \in DOMAIN filename : filename[i] = "."
    /\ LowerStr(Extension(filename)) \in ALLOWED_EXTENSIONS

\* Headers an uploaded CSV may have: the required columns, those and one
\* more, one or two of them short, or none of them.
ColumnSets ==
    {Required,
     Required \cup {"notes"},
     Required \ {"supplier"},
     Required \ {"po_id", "department"},
     {"notes"}}

\* What an upload can carry: a CSV, or bytes that do not parse.
Payloads(id) == {Csv(id, c) : c \in ColumnSets} \cup {Garbage(id)}

\* The names under which uploads are saved (secure_filename leaves the
\* names of FileNames as they are), and the paths in data/uploads.
SavedNames == {n \in FileNames : n # <<>> /\ allowed_file(n)}

Paths == (0..MaxTime) \X SavedNames

\* api.py:222-224
FilePath(u) == <<u.ts, u.name>>

\* api.py:232
MissingColumns(cols) == SelectSeq(required_columns, LAMBDA c : c \notin cols)

\* api.py:210
NoFileResponse == Response(400, [error |-> "No file provided"])

\* api.py:215
NoFilenameResponse == Response(400, [error |-> "No file selected"])

\* api.py:218
NotCsvResponse == Response(400, [error |-> "Only CSV files are allowed"])

\* api.py:236-239: the message is "Missing required columns: " and the
\* comma-joined list, kept here as the list.
MissingColumnsResponse(missing) ==
    Response(400, [error |-> "Missing required columns",
                   missing_columns |-> missing,
                   required_columns |-> required_columns])

\* api.py:260
InvalidCsvResponse == Response(400, [error |-> "Invalid CSV format"])

\* api.py:263
UploadFailedResponse == Response(500, [error |-> "Upload failed"])

\* api.py:250-255 (rows: the row count is not modelled, the version stands for it)
UploadedResponse(u) ==
    Response(200, [message |-> "File uploaded successfully",
                   filename |-> FilePath(u),
                   rows |-> u.df.id,
                   columns |-> u.df.cols])

\* api.py:258-259: if filepath.exists(): os.remove(filepath)
Removed(path) == [uploads EXCEPT ![path] = Missing]

\* An upload answered before anything was saved.
Reject(t, r) ==
    /\ Respond(t, r)
    /\ up' = [up EXCEPT ![t] = NoUpload]
    /\ UNCHANGED <<uploads, nextId>>

\* api.py:207-225: the request is screened (no file part, no file name, not
\* a CSV name) and the file saved under a name made of the second it arrived
\* in and its own name; file.save may fail, which the outer handler reports.
UploadBegin(t) ==
    /\ Accept(t, "upload")
    /\ ended' = [ended EXCEPT ![t] = "none"]
    /\ \/ Reject(t, NoFileResponse)
       \/ \E filename \in FileNames :
            \/ /\ filename = <<>>
               /\ Reject(t, NoFilenameResponse)
            \/ /\ filename # <<>>
               /\ ~allowed_file(filename)
               /\ Reject(t, NotCsvResponse)
            \/ /\ filename # <<>>
               /\ allowed_file(filename)
               /\ nextId <= MaxUploads + 1
               /\ \/ Reject(t, UploadFailedResponse)
                  \/ \E file \in Payloads(nextId) :
                       LET u == [NoUpload EXCEPT
                                    !.ts = clock, !.name = filename, !.file = file]
                       IN
                        /\ uploads' = [uploads EXCEPT ![FilePath(u)] = file]
                        /\ up' = [up EXCEPT ![t] = u]
                        /\ nextId' = nextId + 1
                        /\ pc' = [pc EXCEPT ![t] = "up_saved"]
                        /\ resp' = [resp EXCEPT ![t] = NoResponse]
    /\ UNCHANGED <<loadVars, serveVars, clock, raw, backups, processed, superseded, cacheVars, orch>>

\* api.py:228-239 and 257-260: the saved file is read back and its header
\* checked.
UploadValidate(t) ==
    /\ pc[t] = "up_saved"
    /\ LET path == FilePath(up[t])
           df == uploads[path]
       IN
        \/ /\ df.kind # "csv"
           /\ uploads' = Removed(path)
           /\ Respond(t, InvalidCsvResponse)
           /\ UNCHANGED up
        \/ /\ df.kind = "csv"
           /\ MissingColumns(df.cols) # <<>>
           /\ uploads' = Removed(path)
           /\ Respond(t, MissingColumnsResponse(MissingColumns(df.cols)))
           /\ UNCHANGED up
        \/ /\ df.kind = "csv"
           /\ MissingColumns(df.cols) = <<>>
           /\ up' = [up EXCEPT ![t].df = df]
           /\ pc' = [pc EXCEPT ![t] = "up_valid"]
           /\ UNCHANGED <<uploads, resp>>
    /\ UNCHANGED <<loadVars, serveVars, clock, nextId, raw, backups, processed, superseded, cacheVars, orch, req, ended>>

\* shutil.copy(src, dst) into the raw file: it raises before it opens dst
\* when src is not there, and a write that fails leaves dst cut short.
CopyOutcomes(src) ==
    IF Exists(src) THEN {"copied", "write_fails"} ELSE {"no_source"}

CopyResult(src, dst, outcome) ==
    CASE outcome = "copied" -> src
      [] outcome = "write_fails" -> Truncated
      [] OTHER -> dst

\* api.py:243-245: the backup of this second, when there is a raw file.
BackedUp(ts) ==
    IF Exists(raw) THEN [backups EXCEPT ![ts] = raw] ELSE backups

\* api.py:241-260: the raw file is backed up and replaced by the saved file.
UploadCommit(t) ==
    /\ pc[t] = "up_valid"
    /\ LET path == FilePath(up[t]) IN
       \E outcome \in CopyOutcomes(uploads[path]) :
        /\ backups' = BackedUp(up[t].ts)
        /\ raw' = CopyResult(uploads[path], raw, outcome)
        /\ up' = [up EXCEPT ![t].changed_raw = (raw' # raw)]
        /\ superseded' =
              IF outcome = "copied" /\ Exists(raw)
              THEN superseded \cup {raw}
              ELSE superseded
        /\ IF outcome = "copied"
           THEN /\ Respond(t, UploadedResponse(up[t]))
                /\ UNCHANGED uploads
           ELSE /\ Respond(t, InvalidCsvResponse)
                /\ uploads' = Removed(path)
    /\ UNCHANGED <<loadVars, serveVars, clock, nextId, processed, cacheVars, orch, req, ended>>

\* A second passes.
Tick ==
    /\ clock < MaxTime
    /\ clock' = clock + 1
    /\ UNCHANGED <<nextId, fileVars, cacheVars, pc, up, orch, resp, req, ended, loadVars, serveVars>>

(* ---------------------------- GET endpoints --------------------------- *)

\* The cells of a frame: a number, a string, NaN (a missing value), and
\* None, which jsonify renders as null.
NaN == [t |-> "nan"]
Null == [t |-> "null"]
Num(n) == [t |-> "num", n |-> n]
Str(s) == [t |-> "str", s |-> s]

\* Names, as characters.
Pipe == <<"p", "i", "p", "e">>
Valve == <<"v", "a", "l", "v", "e">>
Acme == <<"a", "c", "m", "e">>

PoIds == 1..MaxPoId

\* Sequences of at most n elements of S.
SeqUpTo(S, n) == UNION {[1..k -> S] : k \in 0..n}

\* Rows a raw file that passed the upload's column check can hold: the check
\* looks at the header only, so a po_id may repeat and cells may be empty.
RawRowSet ==
    {[po_id |-> Num(i), supplier |-> c[1], unit_price |-> c[2]] :
        i \in PoIds, c \in {<<Str(Acme), Num(10)>>, <<NaN, NaN>>}}

\* Rows of standardized_items.csv: one per purchase order line.
StdRowSet ==
    [po_id : {Num(i) : i \in PoIds},
     canonical_item_name : {Str(Pipe), Str(Valve)},
     confidence_score : {Num(1)}]

\* Rows of cost_analytics.csv; price_std is empty for an item seen once.
AnaRowSet ==
    [canonical_item_name : {Str(Pipe)},
     avg_price : {Num(10)},
     price_std : {Num(2), NaN}]

\* Rows of anomalies.csv.
AnoRowSet ==
    [po_id : {Num(1)}, expected_price : {NaN}]

RECURSIVE Flatten(_)
Flatten(ss) == IF ss = <<>> THEN <<>> ELSE Head(ss) \o Flatten(Tail(ss))

\* api.py:47-57: standardized.merge(raw_data[[...]], on='po_id', how='left')
\* and the two renames: every standardized row is paired with every raw row
\* of its po_id, in order, or with empty cells when there is none.
Merge(left, right) ==
    LET Joined(l, r) ==
            [po_id |-> l.po_id,
             canonical_item_name |-> l.canonical_item_name,
             standardization_confidence |-> l.confidence_score,
             supplier_name |-> r.supplier,
             unit_price |-> r.unit_price]
        Unmatched == [supplier |-> NaN, unit_price |-> NaN]
        Matches(l) == SelectSeq(right, LAMBDA r : r.po_id = l.po_id)
        RowsOf(l) ==
            IF Matches(l) = <<>>
            THEN <<Joined(l, Unmatched)>>
            ELSE [i \in DOMAIN Matches(l) |-> Joined(l, Matches(l)[i])]
    IN Flatten([i \in DOMAIN left |-> RowsOf(left[i])])

\* The rows of the cached standardized_df.
Items == Merge(stdRows, rawRows)

Answer(endpoint, status, body) ==
    [endpoint |-> endpoint, status |-> status, body |-> body]

\* api.py:83, 101, 134, 144, 154, 176
NotLoaded(endpoint) == Answer(endpoint, 500, [error |-> "Data not loaded"])

IsNone(df) == df.kind = "none"

\* Series.mean(): the mean of the cells that are not NaN, and NaN when
\* there is none (an empty frame, or a column of empty cells).
Numbers(cells) == SelectSeq(cells, LAMBDA c : c # NaN)

RECURSIVE Sum(_)
Sum(cells) == IF cells = <<>> THEN 0 ELSE Head(cells).n + Sum(Tail(cells))

Mean(cells) ==
    IF Numbers(cells) = <<>>
    THEN NaN
    ELSE Num(Sum(Numbers(cells)) \div Len(Numbers(cells)))

\* Series.nunique(): NaN is not counted.
NUnique(cells) == Cardinality(Range(cells) \ {NaN})

Column(rows, c) == [i \in DOMAIN rows |-> rows[i][c]]

\* DataFrame.replace({np.nan: None}), on one row
ReplaceNaN(row) == [c \in DOMAIN row |-> IF row[c] = NaN THEN Null ELSE row[c]]

ToRecords(rows) == [i \in DOMAIN rows |-> ReplaceNaN(rows[i])]

\* api.py:79-94 (the frames have no 'category' column here)
get_dashboard_stats ==
    IF IsNone(standardized_df) \/ IsNone(analytics_df)
    THEN NotLoaded("stats")
    ELSE Answer("stats", 200,
            [total_items |-> Num(Len(Items)),
             total_suppliers |-> Num(NUnique(Column(Items, "supplier_name"))),
             avg_unit_price |-> Mean(Column(Items, "unit_price")),
             avg_confidence |-> Mean(Column(Items, "standardization_confidence")),
             items_with_anomalies |->
                 IF IsNone(anomalies_df) THEN Num(0) ELSE Num(Len(anoRows)),
             total_categories |-> Num(0)])

\* str.contains(search, case=False, na=False) on one cell
Contains(cell, search) ==
    /\ cell.t = "str"
    /\ \E i \in 1..(Len(cell.s) - Len(search) + 1) :
          LowerStr(SubSeq(cell.s, i, i + Len(search) - 1)) = LowerStr(search)

\* api.py:107-112
Filtered(search) ==
    IF search = <<>>
    THEN Items
    ELSE SelectSeq(Items, LAMBDA row :
            \/ Contains(row.canonical_item_name, search)
            \/ Contains(row.supplier_name, search))

\* df.iloc[start:end], for 0 <= start <= end
ILoc(rows, start, end) ==
    SubSeq(rows, start + 1, IF end < Len(rows) THEN end ELSE Len(rows))

\* Mutant of PageStart: pages counted from 0.
PageStartFromZero(page, per_page) == page * per_page

\* api.py:116, the first row of a page
PageStart(page, per_page) == (page - 1) * per_page

\* api.py:97-127
get_items(page, per_page, search) ==
    IF IsNone(standardized_df)
    THEN NotLoaded("items")
    ELSE LET df == Filtered(search)
             total == Len(df)
             start == PageStart(page, per_page)
             end == start + per_page
         IN Answer("items", 200,
                [items |-> ToRecords(ILoc(df, start, end)),
                 total |-> total,
                 page |-> page,
                 per_page |-> per_page,
                 pages |-> (total + per_page - 1) \div per_page])

\* api.py:130-137
get_analytics ==
    IF IsNone(analytics_df)
    THEN NotLoaded("analytics")
    ELSE Answer("analytics", 200, [rows |-> ToRecords(anaRows)])

\* api.py:140-147
get_anomalies ==
    IF IsNone(anomalies_df)
    THEN NotLoaded("anomalies")
    ELSE Answer("anomalies", 200, [rows |-> ToRecords(anoRows)])

\* api.py:150-169: float(row.get(...)) keeps a NaN as it is.
get_price_trends ==
    IF IsNone(analytics_df)
    THEN NotLoaded("price-trends")
    ELSE Answer("price-trends", 200,
            [rows |-> [i \in DOMAIN anaRows |->
                [item_name |-> anaRows[i].canonical_item_name,
                 avg_price |-> anaRows[i].avg_price,
                 price_variance |-> anaRows[i].price_std]]])

\* api.py:172-186: one row per supplier name (rows without one are left
\* out by groupby); min and max are NaN exactly when the mean is.
get_suppliers ==
    IF IsNone(standardized_df)
    THEN NotLoaded("suppliers")
    ELSE LET names == Range(Column(Items, "supplier_name")) \ {NaN}
             Group(n) == SelectSeq(Items, LAMBDA row : row.supplier_name = n)
             Stats(n) ==
                [supplier |-> n,
                 avg_price |-> Mean(Column(Group(n), "unit_price")),
                 item_count |-> Num(Len(Numbers(Column(Group(n), "unit_price")))),
                 avg_confidence |->
                     Mean(Column(Group(n), "standardization_confidence"))]
         IN Answer("suppliers", 200, [groups |-> {ReplaceNaN(Stats(n)) : n \in names}])

\* api.py:189-196 (the frames have no 'category' column here)
get_categories ==
    Answer("categories", 500, [error |-> "Data not loaded or categories not available"])

\* api.py:73-76
health_check ==
    Answer("health", 200, [status |-> "healthy", message |-> "API is running"])

\* The search arguments of GET /api/items: none, and one that matches.
Searches == {<<>>, <<"P", "i">>}

\* The template as download_template writes it (api.py:318-332).
TemplateCsv == Csv(0, Required)

\* A GET request is answered: nothing but the response changes.
Serve(a) ==
    /\ answer' = a
    /\ UNCHANGED <<clock, nextId, fileVars, cacheVars, pc, up, orch, resp, req,
                   ended, loadVars, tableVars, template, anomalyVars>>

GetStats == Serve(get_dashboard_stats)

GetItems ==
    \E page \in 1..MaxPage, per_page \in 1..MaxPerPage, search \in Searches :
        Serve(get_items(page, per_page, search))

GetAnalytics == Serve(get_analytics)

GetAnomalies == Serve(get_anomalies)

GetPriceTrends == Serve(get_price_trends)

GetSuppliers == Serve(get_suppliers)

GetCategories == Serve(get_categories)

GetHealth == Serve(health_check)

\* Mutant of DownloadTemplate: the template is written over the raw file.
DownloadTemplateOverRaw ==
    /\ raw' = TemplateCsv
    /\ answer' = Answer("download-template", 200, [file |-> TemplateCsv])
    /\ UNCHANGED <<clock, nextId, backups, uploads, processed, superseded,
                   cacheVars, pc, up, orch, resp, req, ended, loadVars,
                   tableVars, template, anomalyVars>>

\* api.py:315-334: the template is written into the upload folder and sent.
DownloadTemplate ==
    /\ template' = TemplateCsv
    /\ answer' = Answer("download-template", 200, [file |-> TemplateCsv])
    /\ UNCHANGED <<clock, nextId, fileVars, cacheVars, pc, up, orch, resp, req,
                   ended, loadVars, tableVars, anomalyVars>>

(* -------------------------- anomaly detection ------------------------- *)

\* The thresholds of the design (0.2, 0.4, 0.75), in percent.
BaseThreshold == 20
HighThreshold == 40
CriticalThreshold == 75

\* Relative deviations of an item's price from its baseline, in percent:
\* the thresholds and their neighbours.
Deviations == {0, 19, 20, 21, 40, 41, 75, 76, 100}

\* Mutant of Severity: a deviation that equals a threshold is in the upper class.
SeverityFromThreshold(dev) ==
    IF dev >= CriticalThreshold THEN "CRITICAL"
    ELSE IF dev >= HighThreshold THEN "HIGH"
    ELSE IF dev >= BaseThreshold THEN "MEDIUM"
    ELSE "NONE"

\* Design 4.4: deviation > 0.75 -> CRITICAL; > 0.4 -> HIGH; > base
\* threshold -> MEDIUM; otherwise the item is not flagged.
Severity(dev) ==
    IF dev > CriticalThreshold THEN "CRITICAL"
    ELSE IF dev > HighThreshold THEN "HIGH"
    ELSE IF dev > BaseThreshold THEN "MEDIUM"
    ELSE "NONE"

\* The AnomalyRecord of item i; anomaly_reason names the tier.
AnomalyRecord(i) ==
    [po_id |-> i, deviation |-> devs[i], anomaly_reason |-> Severity(devs[i])]

NoBreakdown == [critical_count |-> 0, high_count |-> 0, med_count |-> 0]

\* Nothing was detected or shown yet.
NoAnomalyRun ==
    /\ devs = <<>>
    /\ records = <<>>
    /\ breakdown = NoBreakdown
    /\ anomalyPc = "start"

\* The detection stage: one record for every flagged item, in item order.
DetectAnomalies ==
    /\ anomalyPc = "start"
    /\ records' =
          LET flagged == SelectSeq([i \in DOMAIN devs |-> i],
                                   LAMBDA i : Severity(devs[i]) # "NONE")
          IN [k \in DOMAIN flagged |-> AnomalyRecord(flagged[k])]
    /\ anomalyPc' = "detected"
    /\ UNCHANGED <<clock, nextId, fileVars, cacheVars, pc, up, orch, resp, req,
                   ended, loadVars, answer, tableVars, template, devs, breakdown>>

\* len(anomalies_df[anomalies_df['anomaly_reason'].str.contains(tier)])
CountOf(tier) == Len(SelectSeq(records, LAMBDA r : r.anomaly_reason = tier))

\* app_enhanced.py:538-544: the severity breakdown of the dashboard.
SeverityBreakdown ==
    /\ anomalyPc = "detected"
    /\ breakdown' =
          IF Len(records) > 0
          THEN [critical_count |-> CountOf("CRITICAL"),
                high_count |-> CountOf("HIGH"),
                med_count |-> Len(records) - CountOf("CRITICAL") - CountOf("HIGH")]
          ELSE NoBreakdown
    /\ anomalyPc' = "shown"
    /\ UNCHANGED <<clock, nextId, fileVars, cacheVars, pc, up, orch, resp, req,
                   ended, loadVars, answer, tableVars, template, devs, records>>

(* ------------------------------- system ------------------------------- *)

\* The raw file and the processed files the server finds when it starts: a
\* raw file (version 1) or none, and no outputs or those an earlier run left,
\* computed from an earlier raw file (version 0).
InitFiles ==
    /\ raw \in {Missing, Csv(1, Required)}
    /\ processed \in {[o \in Outputs |-> Missing], [o \in Outputs |-> Csv(0, {})]}
    /\ backups = [ts \in 0..MaxTime |-> Missing]
    /\ uploads = [p \in Paths |-> Missing]

\* api.py:70: the globals are loaded once, at import.
Init ==
    /\ clock = 0
    /\ nextId = 2
    /\ InitFiles
    /\ \E raises \in LoadOutcomes :
        /\ standardized_df = load_data(raises)[1]
        /\ analytics_df = load_data(raises)[2]
        /\ anomalies_df = load_data(raises)[3]
    /\ pc = [t \in Threads |-> "idle"]
    /\ up = [t \in Threads |-> NoUpload]
    /\ orch = [t \in Threads |-> OrchOff]
    /\ resp = [t \in Threads |-> NoResponse]
    /\ req = [t \in Threads |-> "none"]
    /\ ended = [t \in Threads |-> "none"]
    /\ superseded = {}
    /\ loaded = [t \in Threads |-> NoLoad]
    /\ answer = NoAnswer
    /\ template = Missing
    /\ NoAnomalyRun
    /\ rawRows = <<>>
    /\ stdRows = <<>>
    /\ anaRows = <<>>
    /\ anoRows = <<>>

\* Standardized rows have a po_id each of their own.
UniquePoIds(rows) ==
    \A i, j \in DOMAIN rows : rows[i].po_id = rows[j].po_id => i = j

\* api.py:70, with files of which the rows are told apart: the files are
\* missing and nothing is loaded, or they are there with some rows.
InitServe ==
    /\ clock = 0
    /\ nextId = 2
    /\ backups = [ts \in 0..MaxTime |-> Missing]
    /\ uploads = [p \in Paths |-> Missing]
    /\ pc = [t \in Threads |-> "idle"]
    /\ up = [t \in Threads |-> NoUpload]
    /\ orch = [t \in Threads |-> OrchOff]
    /\ resp = [t \in Threads |-> NoResponse]
    /\ req = [t \in Threads |-> "none"]
    /\ ended = [t \in Threads |-> "none"]
    /\ superseded = {}
    /\ loaded = [t \in Threads |-> NoLoad]
    /\ answer = NoAnswer
    /\ template = Missing
    /\ NoAnomalyRun
    /\ raw = Csv(1, Required)
    /\ processed \in [Outputs -> {Missing, Csv(1, {})}]
    /\ \E raises \in LoadOutcomes :
        /\ standardized_df = load_data(raises)[1]
        /\ analytics_df = load_data(raises)[2]
        /\ anomalies_df = load_data(raises)[3]
    /\ \/ /\ \E o \in Outputs : ~Exists(processed[o])
          /\ rawRows = <<>>
          /\ stdRows = <<>>
          /\ anaRows = <<>>
          /\ anoRows = <<>>
       \/ /\ \A o \in Outputs : Exists(processed[o])
          /\ rawRows \in SeqUpTo(RawRowSet, MaxRows)
          /\ stdRows \in {rows \in SeqUpTo(StdRowSet, MaxRows) : UniquePoIds(rows)}
          /\ anaRows \in SeqUpTo(AnaRowSet, 1)
          /\ anoRows \in SeqUpTo(AnoRowSet, 1)

\* The server as it starts, and the deviations of the items of a run.
InitAnomaly ==
    /\ clock = 0
    /\ nextId = 2
    /\ InitFiles
    /\ \E raises \in LoadOutcomes :
        /\ standardized_df = load_data(raises)[1]
        /\ analytics_df = load_data(raises)[2]
        /\ anomalies_df = load_data(raises)[3]
    /\ pc = [t \in Threads |-> "idle"]
    /\ up = [t \in Threads |-> NoUpload]
    /\ orch = [t \in Threads |-> OrchOff]
    /\ resp = [t \in Threads |-> NoResponse]
    /\ req = [t \in Threads |-> "none"]
    /\ ended = [t \in Threads |-> "none"]
    /\ superseded = {}
    /\ loaded = [t \in Threads |-> NoLoad]
    /\ answer = NoAnswer
    /\ template = Missing
    /\ rawRows = <<>>
    /\ stdRows = <<>>
    /\ anaRows = <<>>
    /\ anoRows = <<>>
    /\ devs \in SeqUpTo(Deviations, MaxItems)
    /\ records = <<>>
    /\ breakdown = NoBreakdown
    /\ anomalyPc = "start"

\* The anomaly detection and the dashboard's view of it.
NextAnomaly == DetectAnomalies \/ SeverityBreakdown

SpecAnomaly == InitAnomaly /\ [][NextAnomaly]_vars

\* The GET endpoints.
NextServe ==
    \/ GetStats
    \/ GetItems
    \/ GetAnalytics
    \/ GetAnomalies
    \/ GetPriceTrends
    \/ GetSuppliers
    \/ GetCategories
    \/ GetHealth
    \/ DownloadTemplate

\* The server when only GET requests are sent.
SpecServe == InitServe /\ [][NextServe]_vars

\* POST /api/process and the orchestrator processes it starts.
NextPipeline ==
    \E t \in Threads :
        \/ ProcessStart(t)
        \/ OrchStage(t)
        \/ OrchBanner(t)
        \/ ProcessTimeout(t)
        \/ ProcessReturn(t)
        \/ ProcessReload(t)
        \/ ProcessStore(t)

\* POST /api/upload.
NextUpload ==
    \/ Tick
    \/ \E t \in Threads :
        \/ UploadBegin(t)
        \/ UploadValidate(t)
        \/ UploadCommit(t)

Next == NextPipeline \/ NextUpload \/ NextServe \/ NextAnomaly

Spec == Init /\ [][Next]_vars

\* The server when only pipeline runs are requested.
SpecPipeline == Init /\ [][NextPipeline]_vars

\* POST /api/process when the caller sends one request at a time.
NextSerial ==
    \E t \in Threads :
        \/ ProcessStart(t) /\ \A u \in Threads : pc[u] = "idle"
        \/ OrchStage(t)
        \/ OrchBanner(t)
        \/ ProcessTimeout(t)
        \/ ProcessReturn(t)
        \/ ProcessReload(t)
        \/ ProcessStore(t)

\* The server when pipeline runs are requested one after the other.
SpecSerial == Init /\ [][NextSerial]_vars

\* The server when only uploads are requested.
SpecUpload == Init /\ [][NextUpload]_vars

(* ------------------------------- claims ------------------------------- *)

StageIndex(stage) == CHOOSE i \in DOMAIN Stages : Stages[i] = stage

BannerLine == "PIPELINE COMPLETED SUCCESSFULLY!"

\* An orchestrator process that runs.
InFlight(o) == o.pc \in {"step1", "step2", "step2_anomaly", "banner"}

\* The step in which thread t answers a POST /api/process whose subprocess
\* has ended by itself.
AnswersEndedRun(t) ==
    /\ req[t] = "process"
    /\ pc[t] # "idle"
    /\ pc'[t] = "idle"
    /\ orch[t].pc = "exited"

\* An upload of thread t that saved a file and has been answered.
UploadAnswered(t) == req[t] = "upload" /\ pc[t] = "idle"

\* C1: in every run of the orchestrator the stages are started in the order
\* STANDARDIZATION, ANALYTICS, ANOMALY_DETECTION, each at most once; a stage
\* is started only after the one before it has returned without an error;
\* and the banner (DONE) is printed only after all three have returned.
C1_StagesInOrder ==
    \A t \in Threads :
        LET o == orch[t] IN
        /\ Len(o.started) <= Len(Stages)
        /\ o.started = SubSeq(Stages, 1, Len(o.started))
        /\ \A i \in DOMAIN o.started :
              i > 1 => /\ Len(o.completed) >= i - 1
                       /\ o.completed[i - 1] = Stages[i - 1]
                       /\ Stages[i - 1] \notin Range(o.raised)
        /\ o.done => o.completed = Stages

\* A run that went through all three stages and printed the banner.
C1_Witness ==
    \E t \in Threads :
        orch[t].done /\ orch[t].started = Stages /\ orch[t].completed = Stages

\* C2: when a stage raises an error (an Exception), the run has ended with a
\* non-zero exit status and a traceback on stderr, the stage that raised is
\* the last one started, and the banner was not printed.
C2_ErrorAbortsRun ==
    \A t \in Threads :
        LET o == orch[t] IN
        o.raised # <<>> =>
            /\ o.pc = "exited"
            /\ o.rc.exited
            /\ o.rc.code # 0
            /\ "Traceback" \in Range(o.stderr)
            /\ Len(o.raised) = 1
            /\ o.started[Len(o.started)] = o.raised[1]
            /\ ~o.done
            /\ BannerLine \notin Range(o.stdout)

\* A run whose second stage raised.
C2_Witness ==
    \E t \in Threads : orch[t].raised = <<"ANALYTICS">>

C4_OneRunInFlight ==
    Cardinality({t \in Threads : InFlight(orch[t])}) <= 1

\* The step in which thread t assigns one of the three globals.
StoresGlobal(t) ==
    /\ req[t] = "process"
    /\ pc[t] \in {"proc_store1", "proc_store2", "proc_store3"}
    /\ pc'[t] # pc[t]

\* The cached datasets with the k-th replaced by that of the tuple.
Stored(frames, k) ==
    [i \in 1..3 |->
        IF i = k THEN frames[i]
        ELSE <<standardized_df, analytics_df, anomalies_df>>[i]]

\* C5: a step changes the cached datasets only by assigning one of them from
\* the tuple load_data() returned to a request whose subprocess exited with
\* status 0, and such a request is answered only after it has assigned all
\* three; every other step (of a request whose run exited non-zero, timed
\* out, found no script or raised) leaves the three as they are.
C5_ReloadIffExitZero ==
    [][/\ IF \E t \in Threads : StoresGlobal(t) /\ orch[t].rc.code = 0
          THEN \E t \in Threads :
                 /\ StoresGlobal(t)
                 /\ loaded[t] \in {load_data(raises) : raises \in BOOLEAN}
                 /\ <<standardized_df', analytics_df', anomalies_df'>>
                        = Stored(loaded[t], StoreAt(pc[t]))
          ELSE UNCHANGED cacheVars
       /\ \A t \in Threads :
             (AnswersEndedRun(t) /\ orch[t].rc.code = 0) => pc[t] = "proc_store3"]_vars

\* One request was answered after a reload that changed the cache, another
\* after a failed run.
C5_Witness ==
    \E t1, t2 \in Threads :
        /\ ended[t1] = "success"
        /\ ended[t2] = "failed"
        /\ standardized_df.kind = "df"

\* C6: the response to a run killed by the timeout differs from the response
\* to any run that ended with a non-zero exit status.
C6_TimeoutDistinct ==
    \A t1, t2 \in Threads :
        (ended[t1] = "timeout" /\ ended[t2] = "failed") => resp[t1] # resp[t2]

\* One request timed out and another one's run failed.
C6_Witness ==
    \E t1, t2 \in Threads : ended[t1] = "timeout" /\ ended[t2] = "failed"

\* The response body carries the run's stdout, stderr and exit code.
Carries(body, o) ==
    /\ "output" \in DOMAIN body
    /\ body.output = o.stdout
    /\ "error_details" \in DOMAIN body
    /\ body.error_details = o.stderr
    /\ "returncode" \in DOMAIN body
    /\ body.returncode = o.rc.code

\* C7: the response to a request whose subprocess has ended carries the
\* run's stdout, its stderr and its exit code.
C7_ResponseCarriesRun ==
    [][\A t \in Threads : AnswersEndedRun(t) => Carries(resp'[t].body, orch[t])]_vars

\* The raw file holds a CSV that lacks a required column.
RawIncomplete == raw.kind = "csv" /\ ~(Required \subseteq raw.cols)

\* C8: the raw file never comes to hold a CSV that lacks one of the nine
\* required columns, and an upload that carried such a CSV has not changed
\* the raw file and is answered with an error that lists exactly the
\* required columns its CSV lacks.
C8_ReplacedOnlyIfComplete ==
    /\ ~RawIncomplete
    /\ \A t \in Threads :
        (UploadAnswered(t) /\ up[t].file.kind = "csv"
                           /\ ~(Required \subseteq up[t].file.cols)) =>
            /\ ~up[t].changed_raw
            /\ resp[t] = MissingColumnsResponse(MissingColumns(up[t].file.cols))

\* C9: an upload answered with an error has not changed the raw file.
C9_ErrorLeavesRaw ==
    \A t \in Threads :
        (UploadAnswered(t) /\ resp[t].status # 200) => ~up[t].changed_raw

\* C10: every raw version an upload has overwritten is in a backup file.
C10_SupersededBackedUp ==
    \A v \in superseded : \E ts \in DOMAIN backups : backups[ts] = v

\* C17: the step that answers POST /api/process with 200 leaves the three
\* cached datasets loaded (none of them None).
C17_SuccessMeansLoaded ==
    [][\A t \in Threads :
          (AnswersEndedRun(t) /\ resp'[t].status = 200) =>
              /\ standardized_df'.kind = "df"
              /\ analytics_df'.kind = "df"
              /\ anomalies_df'.kind = "df"]_vars

\* C18: after every step that assigns a cached dataset, the three cached
\* datasets are the tuple of one load_data call, the one being assigned.
C18_CacheFromOneLoad ==
    [][\A t \in Threads :
          StoresGlobal(t) =>
              <<standardized_df', analytics_df', anomalies_df'>> = loaded[t]]_vars

\* C19: a run that has exited with status 0 has had all three stages return
\* and has printed the banner.
C19_ExitZeroMeansAllStages ==
    \A t \in Threads :
        (orch[t].rc.exited /\ orch[t].rc.code = 0) =>
            /\ orch[t].completed = Stages
            /\ orch[t].done
            /\ BannerLine \in Range(orch[t].stdout)

DataEndpoints ==
    {"stats", "items", "analytics", "anomalies", "price-trends", "suppliers",
     "categories"}

\* The answers the data endpoints give in the current state.
DataAnswers ==
    {get_dashboard_stats, get_analytics, get_anomalies, get_price_trends,
     get_suppliers, get_categories}
    \cup {get_items(page, per_page, search) :
            page \in 1..MaxPage, per_page \in 1..MaxPerPage, search \in Searches}

IsNotLoadedAnswer(a) ==
    /\ a.status = 500
    /\ DOMAIN a.body = {"error"}
    /\ a.body.error \in {"Data not loaded",
                         "Data not loaded or categories not available"}

\* C11: when one of the three output files was missing as the data were
\* loaded, the three cached datasets are None and every data endpoint
\* answers that the data are not loaded.
C11_MissingFilesNotLoaded ==
    (\E o \in Outputs : ~Exists(processed[o])) =>
        /\ IsNone(standardized_df) /\ IsNone(analytics_df) /\ IsNone(anomalies_df)
        /\ \A a \in DataAnswers : IsNotLoadedAnswer(a)
        /\ answer.endpoint \in DataEndpoints => IsNotLoadedAnswer(answer)

\* One output file is there, another is missing, and GET /api/items was
\* answered.
C11_Witness ==
    /\ Exists(processed["std"])
    /\ ~Exists(processed["ana"])
    /\ answer.endpoint = "items"
    /\ IsNotLoadedAnswer(answer)

\* A NaN in a response.
HasNaN(a) ==
    /\ a.status = 200
    /\ CASE a.endpoint = "stats" -> \E c \in DOMAIN a.body : a.body[c] = NaN
         [] a.endpoint = "items" ->
                \E i \in DOMAIN a.body.items :
                    \E c \in DOMAIN a.body.items[i] : a.body.items[i][c] = NaN
         [] a.endpoint = "suppliers" ->
                \E row \in a.body.groups : \E c \in DOMAIN row : row[c] = NaN
         [] a.endpoint \in {"analytics", "anomalies", "price-trends"} ->
                \E i \in DOMAIN a.body.rows :
                    \E c \in DOMAIN a.body.rows[i] : a.body.rows[i][c] = NaN
         [] OTHER -> FALSE

\* C12: no response of a data endpoint holds a NaN.
C12_NoNaNServed == ~HasNaN(answer)

\* C13: a step that answers a GET request leaves the raw file, the three
\* output files and the three cached datasets as they are.
C13_GetReadsOnly ==
    [][answer' # answer => UNCHANGED <<raw, processed, cacheVars>>]_vars

\* The template was downloaded (the one GET that writes a file).
C13_Witness ==
    /\ answer.endpoint = "download-template"
    /\ template = TemplateCsv

\* The rows of the filtered list a page is to hold: those at positions
\* (page-1)*per_page .. page*per_page-1, counted from 0.
PageRows(rows, page, per_page) ==
    LET at == {i \in DOMAIN rows :
                  /\ i - 1 >= (page - 1) * per_page
                  /\ i - 1 <= page * per_page - 1}
    IN SelectSeq([i \in DOMAIN rows |-> <<i, rows[i]>>], LAMBDA e : e[1] \in at)

\* ceil(total / per_page): the least n with n * per_page >= total.
Ceil(total, per_page) ==
    CHOOSE n \in 0..total :
        /\ n * per_page >= total
        /\ \A m \in 0..total : m * per_page >= total => n <= m

\* What the claim says of GET /api/items with these arguments.
PageAsClaimed(page, per_page, search) ==
    LET a == get_items(page, per_page, search)
        rows == ToRecords(Filtered(search))
        expected == PageRows(rows, page, per_page)
    IN /\ a.status = 200
       /\ a.body.items = [i \in DOMAIN expected |-> expected[i][2]]
       /\ a.body.total = Len(rows)
       /\ a.body.pages = Ceil(Len(rows), per_page)
       /\ page > a.body.pages => a.body.items = <<>>

\* C16: for every page and per_page from 1 on and every search, GET
\* /api/items holds the rows of the filtered list at the page's positions,
\* in order, with their number as total and ceil(total / per_page) as
\* pages; the pages 1..pages together are the filtered list, and a page
\* after them is empty.  The response given last is one of these.
C16_PagesPartitionItems ==
    ~IsNone(standardized_df) =>
        /\ \A page \in 1..MaxPage, per_page \in 1..MaxPerPage, search \in Searches :
              PageAsClaimed(page, per_page, search)
        /\ \A per_page \in 1..MaxPerPage, search \in Searches :
              Flatten([page \in 1..Ceil(Len(Filtered(search)), per_page) |->
                          get_items(page, per_page, search).body.items])
                  = ToRecords(Filtered(search))
        /\ answer.endpoint = "items" =>
              \E search \in Searches :
                  answer = get_items(answer.body.page, answer.body.per_page, search)

\* The last page of three rows, two to a page, was served.
C16_Witness ==
    /\ answer.endpoint = "items"
    /\ answer.status = 200
    /\ answer.body.total = 3
    /\ answer.body.per_page = 2
    /\ answer.body.page = 2
    /\ Len(answer.body.items) = 1

\* C20: when the items or the statistics are served, the served items are
\* as many as the rows of standardized_items, each po_id once, and
\* total_items says so.
C20_OneRowPerItem ==
    (answer.status = 200 /\ answer.endpoint \in {"stats", "items"}) =>
        /\ Len(Items) = Len(stdRows)
        /\ UniquePoIds(Items)
        /\ answer.endpoint = "stats" => answer.body.total_items = Num(Len(stdRows))

Tiers == <<"MEDIUM", "HIGH", "CRITICAL">>

TierRank(tier) == CHOOSE k \in DOMAIN Tiers : Tiers[k] = tier

====
